---- MODULE Spec2Model ----
(***************************************************************************)
(* State-machine model of streamlit_work_project_lab_notebook_app.py: the  *)
(* SQLite persistence layer (projects, entries, attachments), the          *)
(* attachment files on disk, and the Streamlit handlers that drive them.   *)
(*                                                                         *)
(* Conventions.  Python str values are tuples of one-character strings, so *)
(* that strip() and SQL LIKE are computed character by character.  An      *)
(* Optional value is <<>> (None / SQL NULL) or <<v>>.  A path string is a   *)
(* tuple of path components and "/" separators, and a pathlib.Path is a    *)
(* record [abs, parts].  Table rows are records kept in sequences in       *)
(* rowid order; no operation of the program deletes a row, so the          *)
(* AUTOINCREMENT id of a row is its position.                              *)
(***************************************************************************)
EXTENDS Integers, Sequences, FiniteSets, TLC

VARIABLES
    projects,       \* table projects, in rowid order
    entries,        \* table entries, in rowid order
    attachments,    \* table attachments, in rowid order
    files,          \* the absolute paths of the files that exist on disk
    dirs,           \* the absolute paths of the directories that exist
    saves,          \* history of the save_uploaded_files calls
    now,            \* the reading of datetime.utcnow()
    upserted,       \* history: name -> base path of its latest upsert_project
    inserted,       \* history: entry id -> the arguments insert_entry was given
    ret,            \* what the last call returned, raised or displayed
    session,        \* [started: the session has run the script; state: st.session]
    st_attrs,       \* the attribute names the installed streamlit module has
    conn,           \* per caller: position inside a concurrent upsert_project
    db_lock         \* the caller holding SQLite's write lock, if any

vars == <<projects, entries, attachments, files, dirs, saves, now, upserted,
          inserted, ret,
          session, st_attrs, conn, db_lock>>

\* ------------------------------------------------------------------ bounds

MaxProjects == 2
MaxEntries == 2
MaxAttachments == 2
MaxUpserts == 2
MaxClock == 2
MaxCalls == 2
RecursionLimit == 4

\* ------------------------------------------------------------ basic values

None == <<>>
Some(v) == <<v>>

Range(s) == {s[i] : i \in DOMAIN s}

RECURSIVE Strip(_)
Strip(s) ==
    IF s = <<>> THEN s
    ELSE IF Head(s) = " " THEN Strip(Tail(s))
    ELSE IF s[Len(s)] = " " THEN Strip(SubSeq(s, 1, Len(s) - 1))
    ELSE s

\* datetime.isoformat(): 'YYYY-MM-DDTHH:MM:SS', date part first.
isoformat(ts) == <<ts.date, ts.time>>

\* date.isoformat(): 'YYYY-MM-DD'.
date_isoformat(d) == <<d>>

\* SQLite DATE(text): the date part of an ISO-8601 text.
DATE(text) == <<text[1]>>

\* Text comparison of ISO-8601 texts (BINARY collation): lexicographic.
TextLE(a, b) ==
    \/ a[1] < b[1]
    \/ a[1] = b[1] /\ (Len(a) = 1 \/ (Len(b) > 1 /\ a[2] <= b[2]))

\* SQLite folds case in LIKE for the 26 ASCII letters only.
Lower(c) ==
    CASE c = "A" -> "a"
      [] c = "B" -> "b"
      [] OTHER -> c

\* SQLite's LIKE: % matches any run of characters, _ any one character.
RECURSIVE LikeMatch(_, _)
LikeMatch(pat, s) ==
    IF pat = <<>> THEN s = <<>>
    ELSE IF Head(pat) = "%"
         THEN LikeMatch(Tail(pat), s) \/ (s # <<>> /\ LikeMatch(pat, Tail(s)))
    ELSE IF s = <<>> THEN FALSE
    ELSE IF Head(pat) = "_" THEN LikeMatch(Tail(pat), Tail(s))
    ELSE Lower(Head(pat)) = Lower(Head(s)) /\ LikeMatch(Tail(pat), Tail(s))

\* column LIKE ?
Like(col, pat) == LikeMatch(pat, col)

\* ---------------------------------------------------------- projects table

ProjectRowsByName(name) == {i \in DOMAIN projects : projects[i].name = name}

get_project_id_by_name(name) ==
    /\ ret' = [op |-> "get_project_id_by_name", name |-> name,
               id |-> IF ProjectRowsByName(name) = {} THEN None
                      ELSE Some(CHOOSE i \in ProjectRowsByName(name) : TRUE)]
    /\ UNCHANGED <<projects, entries, attachments, files, dirs, saves, now,
                   upserted, inserted, session, st_attrs, conn, db_lock>>

\* INSERT INTO projects: name is UNIQUE, id is AUTOINCREMENT.
InsertProjectRow(tbl, name, base_path, at) ==
    Append(tbl, [id |-> Len(tbl) + 1, name |-> name,
                 base_path |-> base_path, created_at |-> at])

\* The UPDATE without its WHERE clause.
UpdateProjectRows_NoWhere(tbl, name, base_path) ==
    [i \in DOMAIN tbl |-> [tbl[i] EXCEPT !.base_path = base_path]]

\* UPDATE projects SET base_path = ? WHERE name = ?
UpdateProjectRows(tbl, name, base_path) ==
    [i \in DOMAIN tbl |->
        IF tbl[i].name = name THEN [tbl[i] EXCEPT !.base_path = base_path]
        ELSE tbl[i]]

\* The code points of the characters the model's names are written in.
CodePoint(c) ==
    CASE c = " " -> 32 [] c = "/" -> 47 [] c = "X" -> 88 [] c = "Y" -> 89
      [] c = "a" -> 97 [] c = "b" -> 98 [] c = "x" -> 120 [] OTHER -> 0

\* a <= b for texts under SQLite's BINARY collation.
RECURSIVE NameLE(_, _)
NameLE(a, b) ==
    IF a = <<>> THEN TRUE
    ELSE IF b = <<>> THEN FALSE
    ELSE IF Head(a) = Head(b) THEN NameLE(Tail(a), Tail(b))
    ELSE CodePoint(Head(a)) < CodePoint(Head(b))

\* SELECT id, name, base_path, created_at FROM projects ORDER BY name
ListedProjects ==
    LET n == Len(projects)
        order == CHOOSE f \in [1..n -> 1..n] :
                     /\ \A i, j \in 1..n : f[i] = f[j] => i = j
                     /\ \A i \in 1..(n - 1) :
                            NameLE(projects[f[i]].name, projects[f[i + 1]].name)
    IN  [i \in 1..n |-> projects[order[i]]]

list_projects ==
    /\ ret' = [op |-> "list_projects", rows |-> ListedProjects]
    /\ UNCHANGED <<projects, entries, attachments, files, dirs, saves, now,
                   upserted, inserted, session, st_attrs, conn, db_lock>>

\* The SELECT of upsert_project, then its UPDATE or its INSERT.
UpsertedProjects(name, base_path) ==
    IF ProjectRowsByName(name) # {}
    THEN UpdateProjectRows(projects, name, base_path)
    ELSE InsertProjectRow(projects, name, base_path, now)

NoteUpsert(name, base_path) ==
    [n \in DOMAIN upserted \cup {name} |->
        IF n = name THEN base_path ELSE upserted[n]]

upsert_project(name, base_path) ==
    /\ Len(projects) < MaxProjects \/ ProjectRowsByName(name) # {}
    /\ projects' = UpsertedProjects(name, base_path)
    /\ upserted' = NoteUpsert(name, base_path)
    /\ ret' = [op |-> "upsert_project", name |-> name, base_path |-> base_path]
    /\ UNCHANGED <<entries, attachments, files, dirs, saves, now, inserted,
                   session, st_attrs, conn, db_lock>>

\* ----------------------------------------------------------- entries table

\* FOREIGN KEY(project_id) REFERENCES projects(id), with foreign_keys = ON.
ProjectFkOk(project_id) ==
    project_id = None \/ project_id[1] \in DOMAIN projects

EntryRow(id, ts, title, project_id, work_type, tags, path, duration_hours, notes_md, at) ==
    [id |-> id, ts |-> isoformat(ts), title |-> title,
     project_id |-> project_id, work_type |-> work_type, tags |-> tags,
     path |-> path, duration_hours |-> duration_hours,
     notes_md |-> notes_md, created_at |-> at]

EntryArgs(ts, title, project_id, work_type, tags, path, duration_hours, notes_md) ==
    [ts |-> ts, title |-> title, project_id |-> project_id,
     work_type |-> work_type, tags |-> tags, path |-> path,
     duration_hours |-> duration_hours, notes_md |-> notes_md]

insert_entry(ts, title, project_id, work_type, tags, path, duration_hours, notes_md) ==
    /\ Len(entries) < MaxEntries
    /\ IF ProjectFkOk(project_id)
       THEN /\ entries' = Append(entries,
                   EntryRow(Len(entries) + 1, ts, title, project_id,
                            work_type, tags, path, duration_hours, notes_md,
                            now))
            /\ inserted' = Append(inserted,
                   EntryArgs(ts, title, project_id, work_type, tags, path,
                             duration_hours, notes_md))
            /\ ret' = [op |-> "insert_entry", entry_id |-> Len(entries) + 1,
                       error |-> "", ts |-> ts,
                       duration_hours |-> duration_hours]
       ELSE /\ UNCHANGED <<entries, inserted>>
            /\ ret' = [op |-> "insert_entry", entry_id |-> 0,
                       error |-> "IntegrityError", ts |-> ts,
                       duration_hours |-> duration_hours]
    /\ UNCHANGED <<projects, attachments, files, dirs, saves, now, upserted,
                   session, st_attrs, conn, db_lock>>

\* The WHERE clause with the project filter applied to every list given,
\* the empty one included: project_id IN () holds of no row.
EntryMatches_InOfEmpty(e, start, end, project_ids, text, tags_like) ==
    /\ start # None =>
           TextLE(DATE(date_isoformat(start[1])), DATE(e.ts))
    /\ end # None =>
           TextLE(DATE(e.ts), DATE(date_isoformat(end[1])))
    /\ project_ids # None =>
           /\ e.project_id # None
           /\ e.project_id[1] \in Range(project_ids[1])
    /\ (text # None /\ text[1] # <<>>) =>
           LET like == <<"%">> \o text[1] \o <<"%">>
           IN  LikeMatch(like, e.title) \/ LikeMatch(like, e.notes_md)
                   \/ LikeMatch(like, e.path)
    /\ (tags_like # None /\ tags_like[1] # <<>>) =>
           LikeMatch(<<"%">> \o tags_like[1] \o <<"%">>, e.tags)

\* WHERE clause built by query_entries; `if x:` is Python truthiness.
EntryMatches(e, start, end, project_ids, text, tags_like) ==
    /\ start # None =>
           TextLE(DATE(date_isoformat(start[1])), DATE(e.ts))
    /\ end # None =>
           TextLE(DATE(e.ts), DATE(date_isoformat(end[1])))
    /\ (project_ids # None /\ project_ids[1] # <<>>) =>
           /\ e.project_id # None
           /\ e.project_id[1] \in Range(project_ids[1])
    /\ (text # None /\ text[1] # <<>>) =>
           LET like == <<"%">> \o text[1] \o <<"%">>
           IN  Like(e.title, like) \/ Like(e.notes_md, like)
                   \/ Like(e.path, like)
    /\ (tags_like # None /\ tags_like[1] # <<>>) =>
           Like(e.tags, <<"%">> \o tags_like[1] \o <<"%">>)

\* An inner join in place of the LEFT JOIN.
JoinedProjectNames_Inner(e) ==
    {projects[i].name : i \in {j \in DOMAIN projects :
         e.project_id # None /\ projects[j].id = e.project_id[1]}}

\* LEFT JOIN projects p ON e.project_id = p.id, IFNULL(p.name, '').
JoinedProjectNames(e) ==
    LET ps == {i \in DOMAIN projects :
                   e.project_id # None /\ projects[i].id = e.project_id[1]}
    IN  IF ps = {} THEN {<<>>} ELSE {projects[i].name : i \in ps}

ResultRow(e, pname) ==
    [id |-> e.id, ts |-> e.ts, title |-> e.title, project |-> pname,
     work_type |-> e.work_type, tags |-> e.tags, path |-> e.path,
     duration_hours |-> e.duration_hours, notes_md |-> e.notes_md]

QueryRowSet(start, end, project_ids, text, tags_like) ==
    UNION {{ResultRow(entries[i], n) : n \in JoinedProjectNames(entries[i])} :
           i \in {j \in DOMAIN entries :
                      EntryMatches(entries[j], start, end, project_ids, text,
                                   tags_like)}}

\* ORDER BY e.ts DESC; rows with equal ts come in an order SQLite chooses.
OrderedByTsDesc(rows) ==
    \A i \in 1..(Len(rows) - 1) : TextLE(rows[i + 1].ts, rows[i].ts)

QueryResults(start, end, project_ids, text, tags_like) ==
    LET S == QueryRowSet(start, end, project_ids, text, tags_like)
    IN  {r \in [1..Cardinality(S) -> S] : Range(r) = S /\ OrderedByTsDesc(r)}

query_entries(start, end, project_ids, text, tags_like) ==
    /\ \E rows \in QueryResults(start, end, project_ids, text, tags_like) :
           ret' = [op |-> "query_entries", start |-> start, end |-> end,
                   project_ids |-> project_ids, text |-> text,
                   tags_like |-> tags_like, rows |-> rows]
    /\ UNCHANGED <<projects, entries, attachments, files, dirs, saves, now,
                   upserted, inserted, session, st_attrs, conn, db_lock>>

\* ------------------------------------------------------- attachments

\* Path(s): a leading "/" makes the path absolute; parts are the components.
ParsePath(s) ==
    [abs |-> s # <<>> /\ Head(s) = "/",
     parts |-> SelectSeq(s, LAMBDA t : t # "/")]

RECURSIVE JoinParts(_)
JoinParts(parts) ==
    IF Len(parts) = 0 THEN <<>>
    ELSE IF Len(parts) = 1 THEN parts
    ELSE <<Head(parts), "/">> \o JoinParts(Tail(parts))

\* str(path)
PathStr(p) == (IF p.abs THEN <<"/">> ELSE <<>>) \o JoinParts(p.parts)

\* path / other: an absolute right operand replaces the left one.
PathJoin(p, q) ==
    IF q.abs THEN q ELSE [abs |-> p.abs, parts |-> p.parts \o q.parts]

\* Path.cwd()
Cwd == [abs |-> TRUE, parts |-> <<"cwd">>]

\* The file system resolves a relative path against the working directory.
Resolve(p) == PathJoin(Cwd, p)

ATTACH_DIR == ParsePath(<<"attachments">>)

\* path.relative_to(other), None standing for the ValueError it raises when
\* one path is absolute and the other is not, or other is no prefix of path.
RelativeTo(p, other) ==
    IF /\ p.abs = other.abs
       /\ Len(other.parts) <= Len(p.parts)
       /\ SubSeq(p.parts, 1, Len(other.parts)) = other.parts
    THEN Some([abs |-> FALSE,
               parts |-> SubSeq(p.parts, Len(other.parts) + 1, Len(p.parts))])
    ELSE None

\* INSERT INTO attachments; FOREIGN KEY(entry_id) REFERENCES entries(id).
insert_attachment(tbl, entry_id, filename, rel_path, at) ==
    Append(tbl, [id |-> Len(tbl) + 1, entry_id |-> entry_id,
                 filename |-> filename, rel_path |-> rel_path,
                 created_at |-> at])

NoFault == [file |-> 0, step |-> "none"]

\* open(dest, "wb") and f.write(...): open creates or truncates the file,
\* and either of the two may raise OSError.
WriteFile(st, dest, call, faulted) ==
    IF faulted = "open" THEN [st EXCEPT !.error = "OSError"]
    ELSE IF faulted = "write"
    THEN [st EXCEPT !.files = @ \cup {Resolve(dest).parts},
                    !.error = "OSError"]
    ELSE [st EXCEPT !.files = @ \cup {Resolve(dest).parts},
                    !.written = @ \cup {<<Resolve(dest).parts, call>>}]

\* rel = dest.relative_to(Path.cwd()); insert_attachment(...); saved.append
RecordFile(st, entry_ids, entry_id, filename, dest, call, faulted) ==
    LET rel == RelativeTo(dest, Cwd)
    IN  IF rel = None THEN [st EXCEPT !.error = "ValueError"]
        ELSE IF faulted = "insert"
        THEN [st EXCEPT !.error = "OperationalError"]
        ELSE IF entry_id \notin entry_ids
        THEN [st EXCEPT !.error = "IntegrityError"]
        ELSE [st EXCEPT
                 !.attachments = insert_attachment(@, entry_id, filename,
                                                   PathStr(rel[1]), now),
                 !.recorded = Append(@, call),
                 !.saved = Append(@, <<filename, PathStr(rel[1])>>)]

\* dest = base / filename, with base = ATTACH_DIR / f"entry_{entry_id}"
DestOf(entry_id, filename) ==
    PathJoin(PathJoin(ATTACH_DIR,
                      ParsePath(<<"entry_" \o ToString(entry_id)>>)),
             ParsePath(filename))

\* One turn of the loop with the record inserted before the file is written.
SaveOne_RecordFirst(st, entry_ids, entry_id, filename, call, faulted) ==
    LET dest == DestOf(entry_id, filename)
        rec == RecordFile(st, entry_ids, entry_id, filename, dest, call,
                          faulted)
    IN  IF rec.error # "" THEN rec ELSE WriteFile(rec, dest, call, faulted)

\* One turn of the loop of save_uploaded_files: write the file, then record.
SaveOne(st, entry_ids, entry_id, filename, call, faulted) ==
    LET dest == DestOf(entry_id, filename)
        wr == WriteFile(st, dest, call, faulted)
    IN  IF wr.error # "" THEN wr
        ELSE RecordFile(wr, entry_ids, entry_id, filename, dest, call,
                        faulted)

RECURSIVE SaveLoop(_, _, _, _, _, _, _)
SaveLoop(st, entry_ids, entry_id, uploaded, i, call, fault) ==
    IF i > Len(uploaded) \/ st.error # "" THEN st
    ELSE SaveLoop(SaveOne(st, entry_ids, entry_id, uploaded[i], call,
                          IF fault.file = i THEN fault.step ELSE "none"),
                  entry_ids, entry_id, uploaded, i + 1, call, fault)

\* save_uploaded_files as a function of the state it starts in: the tables
\* and disk it leaves, what it returns (saved) and what it raises (error).
\* fault names the step the environment makes fail, if any.
SaveUploadedFiles(entry_ids, entry_id, uploaded, fault) ==
    LET call == saves.calls + 1
        base == PathJoin(ATTACH_DIR,
                         ParsePath(<<"entry_" \o ToString(entry_id)>>))
        st0 == [attachments |-> attachments, files |-> files, dirs |-> dirs,
                written |-> saves.written, recorded |-> saves.recorded,
                saved |-> <<>>, error |-> ""]
    IN  IF fault.step = "mkdir" THEN [st0 EXCEPT !.error = "OSError"]
        ELSE SaveLoop([st0 EXCEPT !.dirs = @ \cup {Resolve(base).parts}],
                      entry_ids, entry_id, uploaded, 1, call, fault)

save_uploaded_files(entry_id, uploaded_files, fault) ==
    \E r \in {SaveUploadedFiles(DOMAIN entries, entry_id, uploaded_files,
                                fault)} :
        /\ saves.calls < MaxCalls
        /\ Len(r.attachments) <= MaxAttachments
        /\ attachments' = r.attachments
        /\ files' = r.files
        /\ dirs' = r.dirs
        /\ saves' = [calls |-> saves.calls + 1, written |-> r.written,
                     recorded |-> r.recorded]
        /\ ret' = [op |-> "save_uploaded_files", entry_id |-> entry_id,
                   uploaded_files |-> uploaded_files, fault |-> fault,
                   saved |-> r.saved, error |-> r.error,
                   rows_before |-> Len(attachments)]
        /\ UNCHANGED <<projects, entries, now, upserted, inserted, session,
                       st_attrs, conn, db_lock>>

\* SELECT ... FROM attachments WHERE entry_id = ? ORDER BY id
AttachmentsOf(tbl, entry_id) ==
    SelectSeq(tbl, LAMBDA a : a.entry_id = entry_id)

get_attachments(entry_id) ==
    /\ ret' = [op |-> "get_attachments", entry_id |-> entry_id,
               rows |-> AttachmentsOf(attachments, entry_id)]
    /\ UNCHANGED <<projects, entries, attachments, files, dirs, saves, now,
                   upserted, inserted, session, st_attrs, conn, db_lock>>

\* ------------------------------------------------------ Streamlit handlers

\* hasattr(st, "rerun") / hasattr(st, "experimental_rerun"): do_rerun as a
\* function of its call depth.  st.rerun() ends the script run by raising;
\* the interpreter raises RecursionError at its recursion limit.
RECURSIVE do_rerun(_)
do_rerun(depth) ==
    IF "rerun" \in st_attrs
    THEN [reruns |-> 1, warnings |-> 0, error |-> "", depth |-> depth]
    ELSE IF "experimental_rerun" \in st_attrs
    THEN IF depth >= RecursionLimit
         THEN [reruns |-> 0, warnings |-> 0, error |-> "RecursionError",
               depth |-> depth]
         ELSE do_rerun(depth + 1)
    ELSE [reruns |-> 0, warnings |-> 1, error |-> "", depth |-> depth]

NoRerun == [reruns |-> 0, warnings |-> 0, error |-> "", depth |-> 0]

\* str(value) of a base_path cell: str(None) is the text 'None'.
PyStr(cell) == IF cell = None THEN <<"N", "o", "n", "e">> ELSE cell[1]

\* st.session_state.setdefault(key, value)
SetDefault(state, key, value) ==
    IF key \in DOMAIN state THEN state
    ELSE [k \in DOMAIN state \cup {key} |->
             IF k = key THEN value ELSE state[k]]

\* st.session_state[key] = value
SetItem(state, key, value) ==
    [k \in DOMAIN state \cup {key} |-> IF k = key THEN value ELSE state[k]]

\* st.session_state.get(key): None, which is falsy, when the key is absent.
GetTruthy(state, key) == key \in DOMAIN state /\ state[key]

\* if path and st.checkbox(...): setdefault(..., True) else: [...] = False
OpenAfterSave(state, path, checkbox) ==
    IF path # <<>> /\ checkbox
    THEN SetDefault(state, "open_after_save", TRUE)
    ELSE SetItem(state, "open_after_save", FALSE)

\* float(duration) if duration else None, durations counted in the
\* number_input's steps of 0.25 h.
DurationArg_Unchanged(duration) == Some(duration)

DurationArg(duration) == IF duration # 0 THEN Some(duration) ELSE None

\* One run of the script, main(): sidebar_projects, then quick_capture.
\* event is what the user did to cause the run: "load" (nothing),
\* "save_project" (the sidebar button) or "submit" (the form's button).
\* A session's first run is a load with every widget at its default.  The
\* entry's timestamp, type, tags and notes are given fixed values.
main(selected, event, pname, pbase, title, typed_path, checkbox, duration, uploads) ==
    LET df == ListedProjects
        row == CHOOSE i \in DOMAIN df : df[i].name = selected[1]
        active_project_id == IF selected = None THEN None ELSE Some(df[row].id)
        active_project_base ==
            IF selected = None THEN <<>> ELSE PyStr(df[row].base_path)
        saving == event = "save_project" /\ Strip(pname) # <<>>
        base_arg == IF Strip(pbase) = <<>> THEN None ELSE Some(Strip(pbase))
        rr == IF saving THEN do_rerun(0) ELSE NoRerun
        reached == rr.reruns = 0 /\ rr.error = ""   \* quick_capture runs
        path == IF typed_path = None THEN active_project_base
                ELSE typed_path[1]
        state1 == IF reached THEN OpenAfterSave(session.state, path, checkbox)
                  ELSE session.state
        store == reached /\ event = "submit" /\ Strip(title) # <<>>
        eid == Len(entries) + 1
        args == EntryArgs([date |-> 1, time |-> 0], Strip(title),
                          active_project_id, <<"C">>, <<>>, Strip(path),
                          DurationArg(duration), <<>>)
        entries1 ==
            IF store
            THEN Append(entries,
                     EntryRow(eid, args.ts, args.title, args.project_id,
                              args.work_type, args.tags, args.path,
                              args.duration_hours, args.notes_md, now))
            ELSE entries
    IN  /\ selected # None =>
               \E i \in DOMAIN projects : projects[i].name = selected[1]
        /\ ~session.started =>
               /\ event = "load" /\ selected = None
               /\ typed_path = None /\ ~checkbox
        /\ event = "save_project" <=> pname # <<>> \/ pbase # <<>>
        /\ event # "submit" => title = <<>> /\ duration = 0 /\ uploads = <<>>
        /\ saving => \/ Len(projects) < MaxProjects
                     \/ ProjectRowsByName(Strip(pname)) # {}
        /\ store => Len(entries) < MaxEntries
        /\ \E sv \in {IF store
                      THEN SaveUploadedFiles(DOMAIN entries1, eid, uploads,
                                             NoFault)
                      ELSE [attachments |-> attachments, files |-> files,
                            dirs |-> dirs, written |-> saves.written,
                            recorded |-> saves.recorded, saved |-> <<>>,
                            error |-> ""]} :
            LET flag == GetTruthy(state1, "open_after_save")
                opened == IF store /\ sv.error = "" /\ flag
                             /\ Strip(path) # <<>>
                          THEN <<Strip(path)>> ELSE <<>>
            IN  /\ Len(sv.attachments) <= MaxAttachments
                /\ attachments' = sv.attachments
                /\ files' = sv.files
                /\ dirs' = sv.dirs
                /\ saves' = [calls |-> saves.calls + (IF store THEN 1 ELSE 0),
                             written |-> sv.written,
                             recorded |-> sv.recorded]
                /\ ret' = [op |-> "main", event |-> event, pname |-> pname,
                           title |-> title, path |-> path,
                           checkbox |-> checkbox, duration |-> duration,
                           uploads |-> uploads, flag |-> flag,
                           entry_id |-> IF store THEN eid ELSE 0,
                           opened |-> opened, reruns |-> rr.reruns,
                           warnings |-> rr.warnings,
                           error |-> IF rr.error # "" THEN rr.error
                                     ELSE sv.error]
        /\ projects' = IF saving THEN UpsertedProjects(Strip(pname), base_arg)
                       ELSE projects
        /\ upserted' = IF saving THEN NoteUpsert(Strip(pname), base_arg)
                       ELSE upserted
        /\ session' = [started |-> TRUE, state |-> state1]
        /\ entries' = entries1
        /\ inserted' = IF store THEN Append(inserted, args) ELSE inserted
        /\ UNCHANGED <<now, st_attrs, conn, db_lock>>

\* ------------------------------------------------- repository-level spec

ProjectNames == {<<"X">>, <<"Y">>}
BasePaths == {None, Some(<<"/", "a">>), Some(<<"/", "b">>)}
Dates == {1, 2}

\* The remaining insert_entry arguments, as two unlike sets of values.
EntryDetails ==
    {[time |-> 0, title |-> <<"t">>, work_type |-> <<"C">>, tags |-> <<"g">>,
      path |-> <<"p">>, duration_hours |-> Some(6), notes_md |-> <<"n">>],
     [time |-> 1, title |-> <<"u">>, work_type |-> <<"M">>, tags |-> <<"h">>,
      path |-> <<>>, duration_hours |-> None, notes_md |-> <<"m">>]}

DateRanges == {<<None, None>>, <<Some(1), Some(1)>>, <<Some(1), Some(2)>>,
               <<Some(2), None>>}

NoCall == [op |-> "none"]

NewSession == [started |-> FALSE, state |-> <<>>]

\* The state once the module is imported and init_db has run on a new
\* database: three empty tables, and the attachments directory.
InitStore ==
    /\ projects = <<>>
    /\ entries = <<>>
    /\ attachments = <<>>
    /\ files = {}
    /\ dirs = {Cwd.parts, Resolve(ATTACH_DIR).parts}
    /\ saves = [calls |-> 0, written |-> {}, recorded |-> <<>>]
    /\ now = 1
    /\ upserted = <<>>
    /\ inserted = <<>>
    /\ ret = NoCall
    /\ db_lock = None

InitDb ==
    /\ InitStore
    /\ session = NewSession
    /\ st_attrs = {"rerun"}
    /\ conn = <<>>

DbUpsertProject ==
    \E name \in ProjectNames : upsert_project(name, Some(<<"/", "a">>))

DbInsertEntry ==
    \E d \in Dates, x \in EntryDetails,
       project_id \in {None} \cup {Some(i) : i \in 1..MaxProjects} :
        insert_entry([date |-> d, time |-> x.time], x.title, project_id,
                     x.work_type, x.tags, x.path, x.duration_hours,
                     x.notes_md)

DbQueryEntries ==
    \E range \in DateRanges,
       project_ids \in {None, Some(<<>>), Some(<<1>>)} :
        query_entries(range[1], range[2], project_ids, None, None)

NextDb == DbUpsertProject \/ DbInsertEntry \/ DbQueryEntries

SpecDb == InitDb /\ [][NextDb]_vars

\* ---------------------------------------------------- project repository

CaseNames == {<<"X">>, <<"x">>, <<"Y">>}

\* Time passes between calls.
Tick ==
    /\ now < MaxClock
    /\ now' = now + 1
    /\ ret' = NoCall
    /\ UNCHANGED <<projects, entries, attachments, files, dirs, saves, upserted,
                   inserted, session, st_attrs, conn, db_lock>>

PjUpsertProject ==
    \E name \in CaseNames, base_path \in BasePaths :
        upsert_project(name, base_path)

PjGetProjectId == \E name \in CaseNames : get_project_id_by_name(name)

NextProjects == PjUpsertProject \/ PjGetProjectId \/ list_projects \/ Tick

SpecProjects == InitDb /\ [][NextProjects]_vars

\* C2: after any sequence of upsert_project calls the projects table holds
\* exactly one row for each name that was upserted and no other row, and
\* that row's base path is the one given by the latest upsert of the name.
ThmC2 ==
    /\ \A n \in DOMAIN upserted :
           /\ Cardinality({i \in DOMAIN projects : projects[i].name = n}) = 1
           /\ \A i \in DOMAIN projects :
                  projects[i].name = n => projects[i].base_path = upserted[n]
    /\ \A i \in DOMAIN projects : projects[i].name \in DOMAIN upserted

\* The last call was an upsert of a name whose row is older than another
\* row: it updated, with a base path unlike the other row's.
WitC2 ==
    /\ ret.op = "upsert_project"
    /\ Len(projects) = 2
    /\ projects[1].name = ret.name
    /\ projects[1].base_path = Some(<<"/", "b">>)
    /\ projects[2].base_path = Some(<<"/", "a">>)
    /\ projects[1].created_at < now

\* Claim-side vocabulary: the calendar date an entry was inserted with lies
\* in the inclusive range start..end (an absent end of the range is open).
DateInRange(d, start, end) ==
    /\ start = None \/ start[1] <= d
    /\ end = None \/ d <= end[1]

RowIds(rows) == [i \in DOMAIN rows |-> rows[i].id]

IdsInRange(start, end) ==
    {i \in DOMAIN inserted : DateInRange(inserted[i].ts.date, start, end)}

IsQuery == ret.op = "query_entries"

\* C1 (as claimed): a query_entries call given the empty list as project_ids
\* returns zero rows, and one given no project_ids returns every stored row
\* that satisfies the other filters.
CexC1 ==
    IsQuery =>
        /\ ret.project_ids = Some(<<>>) => ret.rows = <<>>
        /\ ret.project_ids = None =>
               /\ Range(RowIds(ret.rows)) = IdsInRange(ret.start, ret.end)
               /\ Len(ret.rows) = Cardinality(IdsInRange(ret.start, ret.end))

\* C1 (amended): a query_entries call given the empty list as project_ids
\* applies no project filter; like a call given no project_ids, it returns
\* every stored row that satisfies the other filters, each once.
ThmC1 ==
    (IsQuery /\ ret.project_ids \in {None, Some(<<>>)}) =>
        /\ Range(RowIds(ret.rows)) = IdsInRange(ret.start, ret.end)
        /\ Len(ret.rows) = Cardinality(IdsInRange(ret.start, ret.end))

WitC1 ==
    /\ IsQuery
    /\ ret.project_ids = Some(<<>>)
    /\ Len(ret.rows) = 2
    /\ \E i, j \in DOMAIN entries :
           entries[i].project_id = None /\ entries[j].project_id # None

\* The row query_entries is to return for the entry inserted with
\* arguments a under id i.
ExpectedRow(i, a) ==
    [id |-> i, ts |-> isoformat(a.ts), title |-> a.title,
     project |-> IF a.project_id = None THEN <<>>
                 ELSE projects[a.project_id[1]].name,
     work_type |-> a.work_type, tags |-> a.tags, path |-> a.path,
     duration_hours |-> a.duration_hours, notes_md |-> a.notes_md]

\* C3: whenever query_entries is called with a date range and no other
\* filter, every entry stored by insert_entry whose date lies in the range
\* has exactly one row in the result, and that row carries the inserted
\* timestamp, title, work type, tags, path, duration and notes and, as
\* project, the referenced project's name or the empty string.
ThmC3 ==
    (IsQuery /\ ret.project_ids = None /\ ret.text = None
             /\ ret.tags_like = None) =>
        \A i \in IdsInRange(ret.start, ret.end) :
            /\ Cardinality({k \in DOMAIN ret.rows : ret.rows[k].id = i}) = 1
            /\ \E k \in DOMAIN ret.rows :
                   ret.rows[k] = ExpectedRow(i, inserted[i])

WitC3 ==
    /\ IsQuery /\ ret.project_ids = None
    /\ ret.start = Some(1) /\ ret.end = Some(1)
    /\ Len(inserted) = 2
    /\ inserted[1].ts.date = 1 /\ inserted[1].project_id = None
    /\ inserted[2].ts.date = 2 /\ inserted[2].project_id # None
    /\ Len(ret.rows) = 1

\* ------------------------------------------------------------ text search

TextValues == {<<>>, <<"x", "a", "B">>, <<"b">>}
Needles == {<<>>, <<"a", "b">>, <<"A">>, <<"c">>, <<"_">>, <<"%">>}

TxInsertEntry ==
    \E title \in TextValues \ {<<>>}, notes_md \in TextValues,
       path \in TextValues :
        insert_entry([date |-> 1, time |-> 0], title, None, <<"C">>, <<>>,
                     path, None, notes_md)

TxQueryEntries ==
    \E text \in Needles : query_entries(None, None, None, Some(text), None)

NextText == TxInsertEntry \/ TxQueryEntries

SpecText == InitDb /\ [][NextText]_vars

\* Claim-side vocabulary: t occurs in s as a literal substring, letters
\* compared without regard to case.
FoldCase(c) == IF c = "A" THEN "a" ELSE IF c = "B" THEN "b" ELSE c

OccursIn(t, s) ==
    \E off \in 0..(Len(s) - Len(t)) :
        \A k \in 1..Len(t) : FoldCase(s[off + k]) = FoldCase(t[k])

\* C4: query_entries with a non-empty text t and no other filter returns an
\* entry if and only if t occurs as a literal substring, compared without
\* regard to case, in the entry's title, notes or path.
CexC4 ==
    (IsQuery /\ ret.text # None /\ ret.text[1] # <<>>) =>
        \A i \in DOMAIN entries :
            (i \in Range(RowIds(ret.rows)))
                <=> \/ OccursIn(ret.text[1], inserted[i].title)
                    \/ OccursIn(ret.text[1], inserted[i].notes_md)
                    \/ OccursIn(ret.text[1], inserted[i].path)

\* ------------------------------------------------ attachment repository

PlainName == <<"a.txt">>
PathName == <<"/", "cwd", "/", "a.txt">>

\* The lists of uploaded file names: a plain name, as a browser sends it,
\* and a name that is an absolute path under the working directory.
UploadLists ==
    {<<>>, <<PlainName>>, <<PathName>>, <<PathName, PathName>>,
     <<PathName, PlainName>>}

\* The step the environment makes fail: none, the mkdir, or the write or
\* the INSERT of the first or second file.
Faults ==
    {NoFault, [file |-> 0, step |-> "mkdir"]}
        \cup [file : {1, 2}, step : {"open", "write", "insert"}]

FsInsertEntry ==
    insert_entry([date |-> 1, time |-> 0], <<"t">>, None, <<"C">>, <<>>,
                 <<>>, None, <<>>)

FsSaveUploadedFiles ==
    \E entry_id \in 1..MaxEntries, uploaded \in UploadLists,
       fault \in Faults :
        save_uploaded_files(entry_id, uploaded, fault)

FsGetAttachments == \E entry_id \in 1..MaxEntries : get_attachments(entry_id)

NextFiles == FsInsertEntry \/ FsSaveUploadedFiles \/ FsGetAttachments

SpecFiles == InitDb /\ [][NextFiles]_vars

\* C6: in every state reached through save_uploaded_files calls, calls that
\* fail at any step included, the rel_path of every attachment record,
\* resolved against the working directory, names a file that exists on disk
\* and was written by the call that inserted the record.
ThmC6 ==
    \A i \in DOMAIN attachments :
        LET file == Resolve(ParsePath(attachments[i].rel_path)).parts
        IN  /\ file \in files
            /\ <<file, saves.recorded[i]>> \in saves.written

\* A call that failed on its second file has left the record of its first.
WitC6 ==
    /\ ret.op = "save_uploaded_files"
    /\ ret.error = "OSError"
    /\ ret.fault.file = 2
    /\ Len(attachments) = ret.rows_before + 1

\* C8: save_uploaded_files called without a fault for an existing entry
\* with k uploaded files returns k (filename, relative path) pairs and leaves
\* k more attachment rows for the entry, in upload order, each with the
\* file's name and the relative path attachments/entry_<entry_id>/<filename>.
CexC8 ==
    (/\ ret.op = "save_uploaded_files"
     /\ ret.fault = NoFault
     /\ ret.entry_id \in DOMAIN entries) =>
        LET k == Len(ret.uploaded_files)
            rel(f) == <<"attachments", "/",
                        "entry_" \o ToString(ret.entry_id), "/">> \o f
            rows == AttachmentsOf(attachments, ret.entry_id)
            before == Len(rows) - k
        IN  /\ ret.error = ""
            /\ ret.saved = [i \in 1..k |->
                    <<ret.uploaded_files[i], rel(ret.uploaded_files[i])>>]
            /\ Len(attachments) = ret.rows_before + k
            /\ \A i \in 1..k :
                   /\ rows[before + i].filename = ret.uploaded_files[i]
                   /\ rows[before + i].rel_path = rel(ret.uploaded_files[i])

\* --------------------------------------------- concurrent upsert_project

Callers == {"A", "B"}

\* name TEXT NOT NULL UNIQUE, without the UNIQUE.
UniqueViolation_NoConstraint(tbl, name) == FALSE

\* name TEXT NOT NULL UNIQUE: an INSERT of a name the table holds is rejected.
UniqueViolation(tbl, name) == \E i \in DOMAIN tbl : tbl[i].name = name

Idle ==
    [pc |-> "idle", name |-> <<>>, base_path |-> None, found |-> FALSE,
     error |-> "", pending |-> <<>>, calls |-> 0]

\* now = utcnow(); conn = get_conn(); cur = conn.cursor()
RaceBegin(c, name, base_path) ==
    /\ conn[c].pc \in {"idle", "done", "failed"}
    /\ db_lock # Some(c)
    /\ conn[c].calls < MaxUpserts
    /\ conn' = [conn EXCEPT ![c] =
           [pc |-> "select", name |-> name, base_path |-> base_path,
            found |-> FALSE, error |-> "", pending |-> <<>>,
            calls |-> conn[c].calls + 1]]
    /\ UNCHANGED <<projects, entries, attachments, files, dirs, saves, now,
                   upserted, inserted, ret, session, st_attrs, db_lock>>

\* cur.execute("SELECT id FROM projects WHERE name = ?"); cur.fetchone():
\* reads the committed table.
RaceSelect(c) ==
    /\ conn[c].pc = "select"
    /\ conn' = [conn EXCEPT ![c].pc = "write",
                            ![c].found = ProjectRowsByName(conn[c].name) # {}]
    /\ UNCHANGED <<projects, entries, attachments, files, dirs, saves, now,
                   upserted, inserted, ret, session, st_attrs, db_lock>>

\* cur.execute(UPDATE ...) or cur.execute(INSERT ...): the statement opens a
\* transaction and takes the write lock, waiting while another connection
\* holds it.  A rejected INSERT raises out of upsert_project with the
\* transaction still open.
RaceWrite(c) ==
    /\ conn[c].pc = "write"
    /\ db_lock = None
    /\ db_lock' = Some(c)
    /\ LET me == conn[c]
       IN  conn' = [conn EXCEPT ![c] =
               IF me.found
               THEN [me EXCEPT !.pc = "commit",
                        !.pending = UpdateProjectRows(projects, me.name,
                                                      me.base_path)]
               ELSE IF UniqueViolation(projects, me.name)
               THEN [me EXCEPT !.pc = "failed", !.error = "IntegrityError"]
               ELSE [me EXCEPT !.pc = "commit",
                        !.pending = InsertProjectRow(projects, me.name,
                                                     me.base_path, now)]]
    /\ UNCHANGED <<projects, entries, attachments, files, dirs, saves, now,
                   upserted, inserted, ret, session, st_attrs>>

\* conn.commit(); conn.close()
RaceCommit(c) ==
    /\ conn[c].pc = "commit"
    /\ projects' = conn[c].pending
    /\ db_lock' = None
    /\ conn' = [conn EXCEPT ![c].pc = "done", ![c].pending = <<>>]
    /\ ret' = [op |-> "upsert_project", name |-> conn[c].name,
               base_path |-> conn[c].base_path]
    /\ UNCHANGED <<entries, attachments, files, dirs, saves, now, upserted,
                   inserted, session, st_attrs>>

\* The exception has unwound upsert_project: the connection it opened is
\* unreachable, and closing it rolls its transaction back.
RaceDrop(c) ==
    /\ conn[c].pc = "failed"
    /\ db_lock = Some(c)
    /\ db_lock' = None
    /\ UNCHANGED <<projects, entries, attachments, files, dirs, saves, now,
                   upserted, inserted, ret, session, st_attrs, conn>>

InitRace ==
    /\ InitStore
    /\ session = NewSession
    /\ st_attrs = {"rerun"}
    /\ conn = [c \in Callers |-> Idle]

NextRace ==
    \E c \in Callers :
        \/ \E name \in ProjectNames,
              base_path \in {Some(<<"/", "a">>), Some(<<"/", "b">>)} :
               RaceBegin(c, name, base_path)
        \/ RaceSelect(c)
        \/ RaceWrite(c)
        \/ RaceCommit(c)
        \/ RaceDrop(c)

SpecRace == InitRace /\ [][NextRace]_vars

NoDuplicateNames(tbl) ==
    \A i, j \in DOMAIN tbl : tbl[i].name = tbl[j].name => i = j

StAttrs == {"rerun", "experimental_rerun"}

\* The options of the "Active project" selectbox.
Selections == {None} \cup {Some(n) : n \in ProjectNames}

InitSidebar ==
    /\ InitStore
    /\ session = NewSession
    /\ st_attrs \in SUBSET StAttrs
    /\ conn = <<>>

SbLoad ==
    \E selected \in Selections,
       typed_path \in {None, Some(<<"/", "p">>)}, checkbox \in BOOLEAN :
        main(selected, "load", <<>>, <<>>, <<>>, typed_path, checkbox, 0, <<>>)

SbSaveProject ==
    \E selected \in Selections,
       pname \in {<<" ">>, <<"X">>, <<" ", "Y", " ">>},
       pbase \in {<<>>, <<"/", "a">>, <<"/", "b", " ">>} :
        main(selected, "save_project", pname, pbase, <<>>, None, FALSE, 0,
             <<>>)

NextSidebar == SbLoad \/ SbSaveProject

SpecSidebar == InitSidebar /\ [][NextSidebar]_vars

\* C9: do_rerun ends in every Streamlit version: with st.rerun it triggers
\* one rerun; without st.rerun but with st.experimental_rerun it triggers
\* one rerun and raises nothing; with neither it emits one warning and
\* returns.
CexC9 ==
    (ret.op = "main" /\ ret.event = "save_project" /\ Strip(ret.pname) # <<>>)
        => /\ "rerun" \in st_attrs =>
                  ret.reruns = 1 /\ ret.warnings = 0 /\ ret.error = ""
           /\ ("rerun" \notin st_attrs /\ "experimental_rerun" \in st_attrs)
                  => ret.reruns = 1 /\ ret.error = ""
           /\ st_attrs \cap StAttrs = {} =>
                  ret.reruns = 0 /\ ret.warnings = 1 /\ ret.error = ""

\* ---------------------------------------------------------- quick capture

InitUi ==
    /\ InitStore
    /\ session = NewSession
    /\ st_attrs = {"rerun"}
    /\ conn = <<>>

QcLoad ==
    \E selected \in Selections, typed_path \in {None, Some(<<"/", "p">>)},
       checkbox \in BOOLEAN :
        main(selected, "load", <<>>, <<>>, <<>>, typed_path, checkbox, 0, <<>>)

QcSaveProject ==
    \E pbase \in {<<>>, <<"/", "a">>} :
        main(None, "save_project", <<"X">>, pbase, <<>>, None, FALSE, 0, <<>>)

QcSubmit ==
    \E selected \in Selections, title \in {<<" ">>, <<"t">>},
       typed_path \in {None, Some(<<>>), Some(<<"/", "p">>)},
       checkbox \in BOOLEAN, uploads \in {<<>>, <<<<"a.txt">>>>} :
        main(selected, "submit", <<>>, <<>>, title, typed_path, checkbox, 0,
             uploads)

NextCapture == QcLoad \/ QcSaveProject \/ QcSubmit

SpecCapture == InitUi /\ [][NextCapture]_vars

\* C10: whenever the form is submitted with a non-blank title, a non-empty
\* workspace path and the box checked, the open_after_save flag is true at
\* the save and open_in_os is called with the path in that run; with the box
\* unchecked or the path empty, open_in_os is not called.  (Stated for runs
\* without uploads.)
CexC10 ==
    (/\ ret.op = "main" /\ ret.event = "submit"
     /\ Strip(ret.title) # <<>> /\ ret.uploads = <<>>) =>
        /\ (Strip(ret.path) # <<>> /\ ret.checkbox) =>
               ret.flag /\ ret.opened = <<Strip(ret.path)>>
        /\ (ret.path = <<>> \/ ~ret.checkbox) => ret.opened = <<>>

\* -------------------------------------------------------------- durations

DuSubmit ==
    \E title \in {<<" ">>, <<"t">>}, duration \in {0, 1, 6} :
        main(None, "submit", <<>>, <<>>, title, Some(<<"/", "p">>), FALSE,
             duration, <<>>)

DuLoad == main(None, "load", <<>>, <<>>, <<>>, None, FALSE, 0, <<>>)

DuInsertEntry ==
    \E d \in Dates, duration_hours \in {None, Some(0), Some(6)} :
        insert_entry([date |-> d, time |-> 0], <<"t">>, None, <<"C">>, <<>>,
                     <<>>, duration_hours, <<>>)

NextDuration == DuLoad \/ DuSubmit \/ DuInsertEntry

SpecDuration == InitUi /\ [][NextDuration]_vars

\* C5 (as claimed): insert_entry called with a duration of zero, or with
\* none, stores a null duration: no stored entry has a duration of 0.
CexC5 ==
    /\ \A i \in DOMAIN entries : entries[i].duration_hours # Some(0)
    /\ (ret.op = "insert_entry" /\ ret.error = ""
            /\ ret.duration_hours \in {None, Some(0)})
           => entries[ret.entry_id].duration_hours = None

\* C5 (amended): quick_capture passes insert_entry no duration when the
\* form's duration is zero, so an entry it stores has a null duration then
\* and the form's duration otherwise, never 0; insert_entry called with no
\* duration stores a null duration, and stores the duration it is given.
ThmC5 ==
    /\ (ret.op = "main" /\ ret.entry_id # 0) =>
           /\ entries[ret.entry_id].duration_hours # Some(0)
           /\ ret.duration = 0 =>
                  entries[ret.entry_id].duration_hours = None
           /\ ret.duration # 0 =>
                  entries[ret.entry_id].duration_hours = Some(ret.duration)
    /\ (ret.op = "insert_entry" /\ ret.error = "") =>
           entries[ret.entry_id].duration_hours = ret.duration_hours

WitC5 ==
    /\ ret.op = "main" /\ ret.entry_id = 2 /\ ret.duration = 0
    /\ entries[2].duration_hours = None
    /\ entries[1].duration_hours = Some(0)

====
